---- MODULE Spec2Model ----
(***************************************************************************)
(* Model of src/src/messageBroker.ts: the startup routine initConsumer,    *)
(* the six consumer callbacks it registers, receiveWidgetNotification, and *)
(* the two client primitives sendRPCMessage and sendMessage.               *)
(*                                                                         *)
(* The broker, the remote RPC server, the producers of the well-known      *)
(* queues and the functions imported from other modules are the            *)
(* environment: they choose the messages that arrive and the results of    *)
(* the awaited calls.  Every asynchronous continuation of the code (the    *)
(* code between two awaits, one invocation of a consumer callback) is one  *)
(* atomic action, as it is one turn of the JavaScript event loop.          *)
(***************************************************************************)
EXTENDS Integers, Sequences, FiniteSets, TLC

\* Total number of environment-initiated events in one behaviour: messages
\* delivered on well-known queues, sendRPCMessage calls, sendMessage calls
\* and deliveries on reply queues.
MaxOps == 3

\* Number of messages delivered on the well-known queues in one behaviour.
MaxMsgs == 2

\* Number of sendMessage calls in one behaviour of SendSpec.
MaxSends == 2

(***************************************************************************)
(* JavaScript values.                                                      *)
(***************************************************************************)
Undefined == [t |-> "undefined"]
Null == [t |-> "null"]
False == [t |-> "boolean", v |-> FALSE]
Num(n) == [t |-> "number", v |-> n]
Str(s) == [t |-> "string", v |-> s]
Obj(f) == [t |-> "object", v |-> f]
Arr(s) == [t |-> "array", v |-> s]

\* An Error instance, by its message.
Err(m) == [t |-> "Error", message |-> m]

\* v.k: undefined for a missing key and for a primitive; the callers guard
\* the cases where v is null or undefined (a TypeError in JavaScript).
Get(v, k) ==
  IF v.t = "object" /\ k \in DOMAIN v.v THEN v.v[k] ELSE Undefined

\* delete v.k
Without(v, k) ==
  IF v.t = "object" THEN Obj([j \in DOMAIN v.v \ {k} |-> v.v[j]]) ELSE v

\* { [k]: v }
Computed(k, v) == Obj([j \in {k} |-> v])

\* Array.prototype.join(','), of strings.
RECURSIVE JoinComma(_)
JoinComma(ss) ==
  IF ss = <<>> THEN ""
  ELSE IF Len(ss) = 1 THEN ss[1]
  ELSE ss[1] \o "," \o JoinComma(Tail(ss))

\* Converting a value to a property key or inside a template string throws
\* a TypeError when no primitive can be got from it: an object that has a
\* member of its own named toString (a parsed JSON value, never a function)
\* hides Object.prototype.toString, and valueOf returns the object itself;
\* an array throws when the conversion of one of its elements does.
RECURSIVE KeyThrows(_)
KeyThrows(v) ==
  \/ v.t = "object" /\ "toString" \in DOMAIN v.v
  \/ v.t = "array" /\ \E i \in 1..Len(v.v) : KeyThrows(v.v[i])

\* The string a value becomes as a property key or inside a template
\* string, when the conversion does not throw; an array is the join of its
\* elements, null and undefined elements giving the empty string.
RECURSIVE Key(_)
Key(v) ==
  IF v.t = "string" THEN v.v
  ELSE IF v.t = "number" THEN ToString(v.v)
  ELSE IF v.t = "boolean" THEN (IF v.v THEN "true" ELSE "false")
  ELSE IF v.t \in {"undefined", "null"} THEN v.t
  ELSE IF v.t = "array"
  THEN JoinComma([i \in 1..Len(v.v) |-> IF v.v[i].t \in {"undefined", "null"} THEN ""
                                       ELSE Key(v.v[i])])
  ELSE "[object Object]"

\* Property access on null or undefined throws.
Nullish(v) == v.t \in {"undefined", "null"}

\* JavaScript truthiness, as used by `data || {}`.
Falsy(v) ==
  \/ v.t \in {"undefined", "null"}
  \/ v.t = "boolean" /\ v.v = FALSE
  \/ v.t = "number" /\ v.v = 0
  \/ v.t = "string" /\ v.v = ""

(***************************************************************************)
(* The JSON codec.  A message body is a text: either the JSON text of a    *)
(* value (identified by the value it denotes) or a text that is not JSON.  *)
(***************************************************************************)
Text(v) == [wf |-> TRUE, json |-> v]
Malformed == [wf |-> FALSE, json |-> Undefined]

\* What JSON.stringify keeps of a value: object members whose value is
\* undefined are dropped and array elements that are undefined become null,
\* at every depth.
RECURSIVE Canon(_)
Canon(v) ==
  IF v.t = "object"
  THEN Obj([k \in {j \in DOMAIN v.v : v.v[j] # Undefined} |-> Canon(v.v[k])])
  ELSE IF v.t = "array"
  THEN Arr([i \in 1..Len(v.v) |-> IF v.v[i] = Undefined THEN Null ELSE Canon(v.v[i])])
  ELSE v

\* JSON.stringify(v): the value undefined (not a string) for undefined.
JSONstringify(v) == IF v = Undefined THEN Undefined ELSE Text(Canon(v))

\* Buffer.from(s) throws a TypeError unless s is a string.
BufferFromThrows(s) == s = Undefined

\* JSON.parse(text) throws a SyntaxError on a text that is not JSON.
JSONparseThrows(text) == ~text.wf
JSONparse(text) == text.json

\* Values of NODE_ENV: 'test' and any other setting.
NodeEnvs == {"test", "production"}

(***************************************************************************)
(* Names.                                                                  *)
(***************************************************************************)
WellKnown ==
  << "rpc_queue:erxes-integrations", "callPublish", "widgetNotification",
     "integrationsNotification", "engages-api:set-donot-disturb",
     "sparkNotification" >>

WellKnownSet == {WellKnown[i] : i \in 1..Len(WellKnown)}

RpcInbound == "rpc_queue:erxes-integrations"
RpcOutbound == "rpc_queue:erxes-api"

\* The name the broker chooses for the n-th anonymous queue.
GenQueue(n) == "amq.gen-" \o ToString(n)

\* Variant of Uuid: every call gets the same id.
UuidConstant(n) == "uuid-1"

\* The n-th value returned by uuid().
Uuid(n) == "uuid-" \o ToString(n)

NoProp == "(absent)"

(***************************************************************************)
(* Calls recorded on the collaborators, in the order the code issues them. *)
(***************************************************************************)
EvSend(q, content, corr, replyTo) ==
  [op |-> "sendToQueue", queue |-> q, content |-> content,
   correlationId |-> corr, replyTo |-> replyTo]
EvAck(tag) == [op |-> "ack", tag |-> tag]
EvPublish(name, data) == [op |-> "graphqlPubsub.publish", name |-> name, data |-> data]
EvDelete(q) == [op |-> "deleteQueue", queue |-> q]
EvConsume(q, noAck) == [op |-> "consume", queue |-> q, noAck |-> noAck]
EvAssert(q, exclusive) == [op |-> "assertQueue", queue |-> q, exclusive |-> exclusive]
EvDebug(m) == [op |-> "debugBase", message |-> m]
\* A call of one of the other imported functions, not awaited.
EvCall(fn, args) == [op |-> fn, args |-> args]

Ops(effects, kind) == {i \in 1..Len(effects) : effects[i].op = kind}

VARIABLES
  process,     \* the Node.js process: "running" or "exited"
  nodeEnv,     \* process.env.NODE_ENV as read when the module is loaded
  connection,  \* module variable `connection`: TRUE once assigned
  channel,     \* module variable `channel`: "undefined", "open" or "closed"
  initPc,      \* position of initConsumer
  initLog,     \* what the catch block of initConsumer logged
  declared,    \* names of the queues declared through the channel
  consumers,   \* well-known queue name -> number of consumers registered
  msgs,        \* deliveries on the well-known queues, by delivery tag
  calls,       \* sendRPCMessage calls
  sends        \* sendMessage calls

vars == <<process, nodeEnv, connection, channel, initPc, initLog, declared, consumers, msgs, calls, sends>>


\* Number of environment-initiated events so far.
RECURSIVE SumReceived(_, _)
SumReceived(cs, n) ==
  IF n = 0 THEN 0 ELSE Len(cs[n].received) + SumReceived(cs, n - 1)

NOps == Len(msgs) + Len(calls) + Len(sends) + SumReceived(calls, Len(calls))

(***************************************************************************)
(* Unhandled rejections.  amqplib drops the promise a consumer callback    *)
(* returns, the executor of sendRPCMessage drops the promise of            *)
(* assertQueue(...).then(...), and receiveWidgetNotification drops the     *)
(* promises of the calls it makes without await: when one of them rejects  *)
(* nothing handles it.  What follows is the runtime's choice, fixed for    *)
(* the process:                                                            *)
(* either it prints a warning and goes on (the default before Node 15, or  *)
(* --unhandled-rejections=warn), or it ends the process once the turn is   *)
(* over (the default since Node 15).  A process that went on after its     *)
(* first unhandled rejection goes on after the later ones.                 *)
(***************************************************************************)
Unhandled(ms, cs) ==
  Cardinality({t \in 1..Len(ms) : ms[t].cb = "rejected"})
    + Cardinality(UNION {{<<t, i>> : i \in ms[t].failed} : t \in 1..Len(ms)})
    + Cardinality({c \in 1..Len(cs) : cs[c].step \in {"assertFailed", "sendThrew"}})

\* The process after a turn that takes msgs and calls to msgs' and calls'.
EndOfTurn ==
  IF Unhandled(msgs, calls) = 0 /\ Unhandled(msgs', calls') > 0
  THEN {"running", "exited"}
  ELSE {"running"}

(***************************************************************************)
(* initConsumer.  initPc = 0: awaiting amqplib.connect; 1: awaiting        *)
(* connection.createChannel; 1 + i: awaiting assertQueue(WellKnown[i]);    *)
(* InitReturned: the function has returned, normally or through its catch  *)
(* block (then initLog holds the logged message).                          *)
(***************************************************************************)
InitReturned == Len(WellKnown) + 2

Started == initPc = InitReturned /\ initLog = <<>>

\* Variant of InitCatch: the catch block starts the connection again.
InitCatchRetry(message) ==
  /\ initLog' = Append(initLog, message)
  /\ initPc' = 0

\* catch (e) { debugBase(e.message); }
InitCatch(message) ==
  /\ initLog' = Append(initLog, message)
  /\ initPc' = InitReturned

ConnectOk ==
  /\ process = "running"
  /\ initPc = 0
  /\ connection' = TRUE
  /\ initPc' = 1
  /\ UNCHANGED <<nodeEnv, channel, initLog, declared, consumers, msgs, calls, sends>>
  /\ process' \in EndOfTurn

ConnectFail ==
  /\ process = "running"
  /\ initPc = 0
  /\ InitCatch("connect ECONNREFUSED")
  /\ UNCHANGED <<nodeEnv, connection, channel, declared, consumers, msgs, calls, sends>>
  /\ process' \in EndOfTurn

CreateChannelOk ==
  /\ process = "running"
  /\ initPc = 1
  /\ channel' = "open"
  /\ initPc' = 2
  /\ UNCHANGED <<nodeEnv, connection, initLog, declared, consumers, msgs, calls, sends>>
  /\ process' \in EndOfTurn

CreateChannelFail ==
  /\ process = "running"
  /\ initPc = 1
  /\ InitCatch("createChannel failed")
  /\ UNCHANGED <<nodeEnv, connection, channel, declared, consumers, msgs, calls, sends>>
  /\ process' \in EndOfTurn

\* Variant of Consume: the callback is registered twice.
ConsumeTwice(cons, name) == [cons EXCEPT ![name] = @ + 2]

\* channel.consume(name, callback): one more consumer on the queue.
Consume(cons, name) == [cons EXCEPT ![name] = @ + 1]

\* `await channel.assertQueue(name)` returns; channel.consume(name, ...) is
\* called and the next queue's assertQueue is issued.
AssertQueueOk(i) ==
  /\ process = "running"
  /\ initPc = i + 1
  /\ channel = "open"
  /\ declared' = declared \cup {WellKnown[i]}
  /\ consumers' = Consume(consumers, WellKnown[i])
  /\ initPc' = i + 2
  /\ UNCHANGED <<nodeEnv, connection, channel, initLog, msgs, calls, sends>>
  /\ process' \in EndOfTurn

\* `await channel.assertQueue(name)` rejects: the channel has been closed.
AssertQueueFail(i) ==
  /\ process = "running"
  /\ initPc = i + 1
  /\ channel' = "closed"
  /\ InitCatch("Channel closed")
  /\ UNCHANGED <<nodeEnv, connection, declared, consumers, msgs, calls, sends>>
  /\ process' \in EndOfTurn

(***************************************************************************)
(* The consumer callbacks of the six well-known queues.                    *)
(***************************************************************************)
\* A delivered message and the state of the callback invocation serving it.
\*   cb:      the promise of the async callback
\*   handler: the work started for the message (the awaited handler, the
\*            publish call, RobotEntries.createEntry)
\*   at:      'widgetNotification' only: where receiveWidgetNotification
\*            stands, the await it is suspended at ("findConversation",
\*            "getStatus", "changeStatus", "findIntegration", "findUser") or
\*            how it ended: "returned", "threw" (a TypeError of its own),
\*            "rejected" (the call it awaited rejected).  Once it has ended
\*            the callback resumes in a later turn.
\*   conversation: its local variable of that name
\*   finished: positions in effects of the calls made without await that
\*            have finished since
\*   failed:  those of them whose promise rejected
NewMsg(q, content, corr, replyTo) ==
  [queue |-> q, content |-> content, correlationId |-> corr, replyTo |-> replyTo,
   cb |-> "awaiting", handler |-> "none", arg |-> Undefined, result |-> Undefined,
   error |-> "", effects |-> <<>>, at |-> "", conversation |-> Undefined,
   finished |-> {}, failed |-> {}]

Reject(m, e) == [m EXCEPT !.cb = "rejected", !.error = e]

\* 'rpc_queue:erxes-integrations', up to `await receiveRpcMessage(...)`.
OnRpcInbound(m, tag) ==
  LET m1 == [m EXCEPT !.effects = <<EvDebug("Received rpc queue message")>>]
  IN  IF JSONparseThrows(m.content) THEN Reject(m1, "SyntaxError")
      ELSE [m1 EXCEPT !.arg = JSONparse(m.content), !.handler = "running"]

\* Variant of OnCallPublish: the whole envelope is forwarded as the data.
OnCallPublishEnvelope(m, tag) ==
  LET params == JSONparse(m.content)
  IN  IF JSONparseThrows(m.content) THEN Reject(m, "SyntaxError")
      ELSE IF Nullish(params) THEN Reject(m, "TypeError")
      ELSE [m EXCEPT !.arg = params, !.handler = "returned", !.cb = "fulfilled",
                     !.effects = <<EvPublish(Get(params, "name"), params), EvAck(tag)>>]

\* 'callPublish': graphqlPubsub.publish(params.name, params.data), then ack.
OnCallPublish(m, tag) ==
  LET params == JSONparse(m.content)
  IN  IF JSONparseThrows(m.content) THEN Reject(m, "SyntaxError")
      ELSE IF Nullish(params) THEN Reject(m, "TypeError")
      ELSE [m EXCEPT !.arg = params, !.handler = "returned", !.cb = "fulfilled",
                     !.effects = <<EvPublish(Get(params, "name"), Get(params, "data")),
                                   EvAck(tag)>>]

\* 'integrationsNotification', up to the await of
\* receiveIntegrationsNotification(...).
OnNotification(m, tag) ==
  IF JSONparseThrows(m.content) THEN Reject(m, "SyntaxError")
  ELSE [m EXCEPT !.arg = JSONparse(m.content), !.handler = "running"]

(***************************************************************************)
(* receiveWidgetNotification({ action, data }), called with m.arg.         *)
(***************************************************************************)
WidgetAwaits == {"findConversation", "getStatus", "changeStatus", "findIntegration", "findUser"}

WidgetThrow(m) == [m EXCEPT !.at = "threw"]
WidgetEnd(m) == [m EXCEPT !.at = "returned"]

\* From `if (action === 'activityLog')` to the first await of the
\* 'leadInstalled' branch or to the end of the function.
WidgetTail(m) ==
  LET action == Get(m.arg, "action")
      data == Get(m.arg, "data")
  IN  IF action = Str("activityLog")
      THEN IF Nullish(data) THEN WidgetThrow(m)
           ELSE WidgetEnd([m EXCEPT !.effects = @ \o
                  <<EvCall("ActivityLogs.createLogFromWidget",
                           <<Get(data, "type"), Get(data, "payload")>>)>>])
      ELSE IF action = Str("leadInstalled")
      THEN IF Nullish(data) \/ Nullish(Get(data, "payload")) THEN WidgetThrow(m)
           ELSE [m EXCEPT !.at = "findIntegration"]
      ELSE WidgetEnd(m)

\* graphqlPubsub.publish(data.trigger, { [data.trigger]: data.payload }) and
\* what follows it; the arguments are evaluated before the call, so a
\* trigger that cannot be made a key publishes nothing.
WidgetPublish(m) ==
  LET data == Get(m.arg, "data")
      trigger == Get(data, "trigger")
  IN  IF KeyThrows(trigger) THEN WidgetThrow(m)
      ELSE WidgetTail([m EXCEPT !.effects = @ \o
             <<EvPublish(trigger, Computed(Key(trigger), Get(data, "payload")))>>])

\* sendMobileNotification({...}) at the end of `if (conversation)`, and
\* what follows it.
WidgetNotify(m) ==
  LET payload == Get(Get(m.arg, "data"), "payload")
  IN  WidgetPublish([m EXCEPT !.effects = @ \o
        <<EvCall("sendMobileNotification",
                 [title |-> Str("You have a new message"),
                  body |-> Get(payload, "content"),
                  customerId |-> Get(payload, "customerId"),
                  conversationId |-> Get(payload, "conversationId"),
                  conversation |-> m.conversation])>>])

\* The publications that follow `await Conversations.changeCustomerStatus`.
WidgetJoined(m, conversationMessages) ==
  LET customerId == Get(Get(Get(m.arg, "data"), "payload"), "customerId")
  IN  [i \in 1..Len(conversationMessages.v) |->
         EvPublish(Str("conversationMessageInserted"),
                   Obj([conversationMessageInserted |-> conversationMessages.v[i]]))]
      \o <<EvPublish(Str("customerConnectionChanged"),
                     Obj([customerConnectionChanged |->
                            Obj([_id |-> customerId, status |-> Str("connected")])]))>>

\* The function from its call to its first await or to its end.
receiveWidgetNotification(m, env) ==
  LET action == Get(m.arg, "action")
      data == Get(m.arg, "data")
  IN  IF Nullish(m.arg) THEN WidgetThrow(m)
      ELSE IF env = "test" THEN WidgetEnd(m)
      ELSE IF action = Str("callPublish")
      THEN IF Nullish(data) THEN WidgetThrow(m)
           ELSE IF Get(data, "trigger") = Str("conversationMessageInserted")
           THEN IF Nullish(Get(data, "payload")) THEN WidgetThrow(m)
                ELSE [m EXCEPT !.at = "findConversation"]
           ELSE WidgetPublish(m)
      ELSE WidgetTail(m)

\* The function from the await it is suspended at, which has returned r, to
\* its next await or to its end.  After Conversations.findOne the argument
\* of get(...), `customer_last_status_${customerId}`, is evaluated.
WidgetResume(m, r) ==
  LET customerId == Get(Get(Get(m.arg, "data"), "payload"), "customerId")
  IN  CASE m.at = "findConversation" ->
             IF KeyThrows(customerId) THEN WidgetThrow([m EXCEPT !.conversation = r])
             ELSE [m EXCEPT !.conversation = r, !.at = "getStatus"]
        [] m.at = "getStatus" ->
             IF Falsy(m.conversation) THEN WidgetPublish(m)
             ELSE IF r = Str("left")
             THEN [m EXCEPT !.at = "changeStatus",
                            !.effects = @ \o
                              <<EvCall("set", <<Str("customer_last_status_" \o Key(customerId)),
                                                Str("joined")>>)>>]
             ELSE WidgetNotify(m)
        [] m.at = "changeStatus" ->
             WidgetNotify([m EXCEPT !.effects = @ \o WidgetJoined(m, r)])
        [] m.at = "findIntegration" ->
             IF Falsy(r) THEN WidgetEnd(m) ELSE [m EXCEPT !.at = "findUser"]
        [] m.at = "findUser" ->
             IF Falsy(r) THEN WidgetEnd(m)
             ELSE WidgetEnd([m EXCEPT !.effects = @ \o
                    <<EvCall("registerOnboardHistory",
                             [type |-> Str("leadIntegrationInstalled"), user |-> r])>>])

\* Variant of OnWidgetNotification: the message is acknowledged before
\* receiveWidgetNotification is called.
OnWidgetNotificationAckFirst(m, tag, env) ==
  IF JSONparseThrows(m.content) THEN Reject(m, "SyntaxError")
  ELSE receiveWidgetNotification(
         [m EXCEPT !.arg = JSONparse(m.content), !.handler = "running",
                   !.effects = <<EvAck(tag)>>], env)

\* 'widgetNotification', up to the await of receiveWidgetNotification(...):
\* the function has run to its first await or to its end.
OnWidgetNotification(m, tag, env) ==
  IF JSONparseThrows(m.content) THEN Reject(m, "SyntaxError")
  ELSE receiveWidgetNotification(
         [m EXCEPT !.arg = JSONparse(m.content), !.handler = "running"], env)

\* 'engages-api:set-donot-disturb', up to `await Customers.updateOne(...)`.
OnSetDoNotDisturb(m, tag) ==
  LET data == JSONparse(m.content)
  IN  IF JSONparseThrows(m.content) THEN Reject(m, "SyntaxError")
      ELSE IF Nullish(data) THEN Reject(m, "TypeError")
      ELSE [m EXCEPT !.arg = data, !.handler = "running"]

\* 'sparkNotification': RobotEntries.createEntry(data) is started and not
\* awaited; the message is acknowledged at once.
OnSparkNotification(m, tag) ==
  LET m1 == [m EXCEPT !.effects = <<EvDebug("Received spark notification")>>]
      data == JSONparse(m.content)
  IN  IF JSONparseThrows(m.content) THEN Reject(m1, "SyntaxError")
      ELSE IF Nullish(data) THEN Reject(m1, "TypeError")
      ELSE [m1 EXCEPT !.arg = Without(data, "subdomain"), !.handler = "running",
                      !.cb = "fulfilled", !.effects = @ \o <<EvAck(tag)>>]

\* The callback registered on m.queue, up to its first await or to its end.
OnMessage(m, tag, env) ==
  CASE m.queue = RpcInbound -> OnRpcInbound(m, tag)
    [] m.queue = "callPublish" -> OnCallPublish(m, tag)
    [] m.queue = "widgetNotification" -> OnWidgetNotification(m, tag, env)
    [] m.queue = "integrationsNotification" -> OnNotification(m, tag)
    [] m.queue = "engages-api:set-donot-disturb" -> OnSetDoNotDisturb(m, tag)
    [] m.queue = "sparkNotification" -> OnSparkNotification(m, tag)

\* 'rpc_queue:erxes-integrations' after receiveRpcMessage has returned r:
\* the reply is published to msg.properties.replyTo, then the message acked.
AfterRpcHandler(m, tag, r, ch) ==
  LET m1 == [m EXCEPT !.handler = "returned", !.result = r]
      body == JSONstringify(r)
  IN  IF BufferFromThrows(body) THEN Reject(m1, "TypeError")
      ELSE IF ch # "open" THEN Reject(m1, "IllegalOperationError")
      ELSE [m1 EXCEPT !.cb = "fulfilled",
                      !.effects = @ \o <<EvSend(m.replyTo, body, m.correlationId, NoProp),
                                         EvAck(tag)>>]

\* The three callbacks that only acknowledge after their await.
AfterAwait(m, tag, r, ch) ==
  LET m1 == [m EXCEPT !.handler = "returned", !.result = r]
  IN  IF ch # "open" THEN Reject(m1, "IllegalOperationError")
      ELSE [m1 EXCEPT !.cb = "fulfilled", !.effects = @ \o <<EvAck(tag)>>]

\* .then(() => debugBase('success')) of RobotEntries.createEntry.
AfterCreateEntry(m, r) ==
  [m EXCEPT !.handler = "returned", !.result = r, !.effects = @ \o <<EvDebug("success")>>]

\* 'widgetNotification': the await receiveWidgetNotification is suspended
\* at has returned r and the function runs on, or the function has ended
\* and the callback resumes after its own await.
AfterWidget(m, tag, r, ch) ==
  IF m.at = "returned" THEN AfterAwait(m, tag, Undefined, ch)
  ELSE WidgetResume(m, r)

\* The callback after the work it started has returned r.
AfterHandler(m, tag, r, ch) ==
  CASE m.queue = RpcInbound -> AfterRpcHandler(m, tag, r, ch)
    [] m.queue = "sparkNotification" -> AfterCreateEntry(m, r)
    [] m.queue = "widgetNotification" -> AfterWidget(m, tag, r, ch)
    [] OTHER -> AfterAwait(m, tag, r, ch)

\* Variant of AfterHandlerThrow: the failure of receiveRpcMessage is sent
\* back to the requester as an error reply.
AfterHandlerThrowReplies(m) ==
  LET m1 == [m EXCEPT !.handler = "threw"]
  IN  IF m.queue = "sparkNotification"
      THEN [m1 EXCEPT !.effects = @ \o <<EvDebug("createEntry failed")>>]
      ELSE IF m.queue = RpcInbound
      THEN [m1 EXCEPT !.cb = "fulfilled",
                      !.effects = @ \o
                        <<EvSend(m.replyTo,
                                 Text(Obj([status |-> Str("error"),
                                           errorMessage |-> Str("HandlerError")])),
                                 m.correlationId, NoProp)>>]
      ELSE IF m.at \in WidgetAwaits THEN [m EXCEPT !.at = "rejected"]
      ELSE IF m.at = "threw" THEN Reject(m1, "TypeError")
      ELSE Reject(m1, "HandlerError")

\* The work started for the message rejects: the await throws and the
\* callback's promise rejects; createEntry's rejection is caught and logged.
\* When a call receiveWidgetNotification awaits rejects, the function
\* rejects; once it has ended by its own TypeError or by that rejection,
\* the callback's await throws.
AfterHandlerThrow(m) ==
  LET m1 == [m EXCEPT !.handler = "threw"]
  IN  IF m.queue = "sparkNotification"
      THEN [m1 EXCEPT !.effects = @ \o <<EvDebug("createEntry failed")>>]
      ELSE IF m.at \in WidgetAwaits THEN [m EXCEPT !.at = "rejected"]
      ELSE IF m.at = "threw" THEN Reject(m1, "TypeError")
      ELSE Reject(m1, "HandlerError")

\* Bodies of 'widgetNotification': the relay of an event, a message of a
\* customer in a conversation, an activity log, the installation of a lead
\* integration, a trigger that is not a string, and bodies without `data`
\* or that are not an object.
WidgetPublishBody ==
  Text(Obj([action |-> Str("callPublish"),
            data |-> Obj([trigger |-> Str("fooEvent"), payload |-> Obj([x |-> Num(1)])])]))
WidgetMessageBody ==
  Text(Obj([action |-> Str("callPublish"),
            data |-> Obj([trigger |-> Str("conversationMessageInserted"),
                          payload |-> Obj([customerId |-> Str("c1"),
                                           conversationId |-> Str("v1"),
                                           content |-> Str("hi")])])]))
WidgetLogBody ==
  Text(Obj([action |-> Str("activityLog"),
            data |-> Obj([type |-> Str("visit"), payload |-> Obj([x |-> Num(1)])])]))
WidgetLeadBody ==
  Text(Obj([action |-> Str("leadInstalled"),
            data |-> Obj([payload |-> Obj([integrationId |-> Str("i1")])])]))

WidgetListBody ==
  Text(Obj([action |-> Str("callPublish"),
            data |-> Obj([trigger |-> Arr(<<Str("a"), Str("b")>>), payload |-> Str("p")])]))

\* A trigger, and a customerId, with a member named toString.
WidgetNoKeyBody ==
  Text(Obj([action |-> Str("callPublish"),
            data |-> Obj([trigger |-> Obj([toString |-> Num(1)]), payload |-> Str("p")])]))
WidgetNoIdBody ==
  Text(Obj([action |-> Str("callPublish"),
            data |-> Obj([trigger |-> Str("conversationMessageInserted"),
                          payload |-> Obj([customerId |-> Arr(<<Obj([toString |-> Null])>>),
                                           conversationId |-> Str("v1"),
                                           content |-> Str("hi")])])]))

WidgetBodies ==
  {WidgetPublishBody, WidgetMessageBody, WidgetLogBody, WidgetLeadBody, WidgetListBody,
   WidgetNoKeyBody, WidgetNoIdBody,
   Text(Obj([action |-> Str("callPublish")])), Text(Obj([x |-> Num(1)])), Text(Null),
   Malformed}

\* Bodies the producers of a well-known queue may send.
Bodies(q) ==
  IF q = "callPublish"
  THEN {Text(Obj([name |-> Str("fooEvent"), data |-> Obj([x |-> Num(1)])])), Malformed}
  ELSE IF q = RpcInbound
  THEN {Text(Obj([action |-> Str("get-configs")])), Malformed}
  ELSE IF q = "widgetNotification"
  THEN {WidgetPublishBody, Malformed}
  ELSE {Text(Obj([customerId |-> Str("c1"), subdomain |-> Str("s")])), Malformed}

\* Values the work a callback awaits may return: the handler, or the call
\* receiveWidgetNotification is suspended at.
Returns(m) ==
  IF m.queue = RpcInbound
  THEN {Undefined,
        Obj([status |-> Str("success"), data |-> Obj([_id |-> Str("c1"), note |-> Undefined])])}
  ELSE IF m.at = "findConversation" THEN {Null, Obj([integrationId |-> Str("i1")])}
  ELSE IF m.at = "getStatus" THEN {Null, Str("left")}
  ELSE IF m.at = "changeStatus" THEN {Arr(<<Obj([_id |-> Str("m1")])>>)}
  ELSE IF m.at = "findIntegration" THEN {Null, Obj([createdUserId |-> Str("u1")])}
  ELSE IF m.at = "findUser" THEN {Null, Obj([_id |-> Str("u1")])}
  ELSE {Undefined}

\* The broker delivers a message to the consumer of a well-known queue.
Deliver(q, content) ==
  /\ process = "running"
  /\ channel = "open"
  /\ consumers[q] > 0
  /\ NOps < MaxOps
  /\ Len(msgs) < MaxMsgs
  /\ LET tag == Len(msgs) + 1
         m == NewMsg(q, content, "req-" \o ToString(tag), "amq.gen-client")
     IN  msgs' = Append(msgs, OnMessage(m, tag, nodeEnv))
  /\ UNCHANGED <<nodeEnv, connection, channel, initPc, initLog, declared, consumers, calls, sends>>
  /\ process' \in EndOfTurn

HandlerReturn(tag, r) ==
  /\ process = "running"
  /\ tag \in 1..Len(msgs)
  /\ msgs[tag].handler = "running"
  /\ msgs[tag].at \notin {"threw", "rejected"}
  /\ r \in Returns(msgs[tag])
  /\ msgs' = [msgs EXCEPT ![tag] = AfterHandler(@, tag, r, channel)]
  /\ UNCHANGED <<nodeEnv, connection, channel, initPc, initLog, declared, consumers, calls, sends>>
  /\ process' \in EndOfTurn

HandlerThrow(tag) ==
  /\ process = "running"
  /\ tag \in 1..Len(msgs)
  /\ msgs[tag].handler = "running"
  /\ msgs[tag].at # "returned"
  /\ msgs' = [msgs EXCEPT ![tag] = AfterHandlerThrow(@)]
  /\ UNCHANGED <<nodeEnv, connection, channel, initPc, initLog, declared, consumers, calls, sends>>
  /\ process' \in EndOfTurn

\* The functions receiveWidgetNotification calls without awaiting them
\* (lines 49, 73, 87 and 103): each runs on after the call has returned and
\* the promise it returned is dropped.
Unawaited ==
  {"set", "sendMobileNotification", "ActivityLogs.createLogFromWidget",
   "registerOnboardHistory"}

\* The calls made without await for message m that are still in progress.
InBackground(m) == {i \in 1..Len(m.effects) : m.effects[i].op \in Unawaited} \ m.finished

\* One of them finishes: its promise resolves.
BackgroundDone(tag, i) ==
  /\ process = "running"
  /\ tag \in 1..Len(msgs)
  /\ i \in InBackground(msgs[tag])
  /\ msgs' = [msgs EXCEPT ![tag].finished = @ \cup {i}]
  /\ UNCHANGED <<nodeEnv, connection, channel, initPc, initLog, declared, consumers, calls, sends>>
  /\ process' \in EndOfTurn

\* One of them fails: its promise rejects, and nothing handles the rejection.
BackgroundFail(tag, i) ==
  /\ process = "running"
  /\ tag \in 1..Len(msgs)
  /\ i \in InBackground(msgs[tag])
  /\ msgs' = [msgs EXCEPT ![tag].finished = @ \cup {i}, ![tag].failed = @ \cup {i}]
  /\ UNCHANGED <<nodeEnv, connection, channel, initPc, initLog, declared, consumers, calls, sends>>
  /\ process' \in EndOfTurn

(***************************************************************************)
(* sendRPCMessage.                                                         *)
(***************************************************************************)
\* A call of sendRPCMessage(message).
\*   step:     "threw" (the executor threw), "asserting" (awaiting
\*             assertQueue), "assertFailed", "sent" (consumer subscribed and
\*             request published), "sendThrew" (the then-callback threw)
\*   promise:  state of the promise built at line 108, whose outcome is the
\*             outcome of the call, with its value
\*   received: what the reply consumer's callback has been invoked with
NewCall(message, corr) ==
  [message |-> message, correlationId |-> corr, step |-> "asserting", queue |-> "",
   consumer |-> FALSE, promise |-> "pending", value |-> Undefined,
   received |-> <<>>, effects |-> <<>>]

\* Variant of Resolve: a settled promise is settled again.
ResolveAgain(c, v) == [c EXCEPT !.promise = "resolved", !.value = v]

\* resolve(v) and reject(v) settle a pending promise and are ignored otherwise.
Resolve(c, v) ==
  IF c.promise = "pending" THEN [c EXCEPT !.promise = "resolved", !.value = v] ELSE c
RejectCall(c, v) ==
  IF c.promise = "pending" THEN [c EXCEPT !.promise = "rejected", !.value = v] ELSE c

\* The executor: uuid(), then channel.assertQueue('', {exclusive: true}).
\* A throw inside the executor (channel is undefined) rejects the promise.
\* On a closed channel assertQueue returns a rejected promise: the executor
\* does not throw, the then-callback never runs and nothing handles the
\* rejection.
StartCall(message, corr, ch) ==
  LET c == NewCall(message, corr)
  IN  IF ch = "undefined" THEN RejectCall([c EXCEPT !.step = "threw"], Err("TypeError"))
      ELSE IF ch = "closed" THEN [c EXCEPT !.step = "assertFailed"]
      ELSE [c EXCEPT !.effects = <<EvAssert("", TRUE)>>]

\* Variant of OnReplyQueue: the request is published before the reply
\* consumer is subscribed.
OnReplyQueuePublishFirst(c, q) ==
  LET body == JSONstringify(c.message)
      c1 == [c EXCEPT !.queue = q, !.consumer = TRUE]
  IN  IF BufferFromThrows(body) THEN [c1 EXCEPT !.step = "sendThrew"]
      ELSE [c1 EXCEPT !.step = "sent",
                      !.effects = @ \o <<EvSend(RpcOutbound, body, c.correlationId, q),
                                         EvConsume(q, TRUE)>>]

\* The then-callback of assertQueue: consume on q.queue, then publish.
OnReplyQueue(c, q) ==
  LET body == JSONstringify(c.message)
      c1 == [c EXCEPT !.queue = q, !.consumer = TRUE,
                      !.effects = @ \o <<EvConsume(q, TRUE)>>]
  IN  IF BufferFromThrows(body) THEN [c1 EXCEPT !.step = "sendThrew"]
      ELSE [c1 EXCEPT !.step = "sent",
                      !.effects = @ \o <<EvSend(RpcOutbound, body, c.correlationId, q)>>]

\* Variant of OnReply: the correlation id is not compared.
OnReplyNoFilter(c, msg) ==
  LET c1 == [c EXCEPT !.received = Append(@, msg)]
      res == JSONparse(msg.content)
  IN  IF JSONparseThrows(msg.content) \/ Nullish(res) THEN c1
      ELSE LET c2 == IF Get(res, "status") = Str("success")
                     THEN Resolve(c1, Get(res, "data"))
                     ELSE RejectCall(c1, Get(res, "errorMessage"))
           IN  [c2 EXCEPT !.effects = @ \o <<EvDelete(c.queue)>>]

\* Variant of OnReply: the call is resolved with the envelope.
OnReplyEnvelope(c, msg) ==
  LET c1 == [c EXCEPT !.received = Append(@, msg)]
      res == JSONparse(msg.content)
  IN  IF msg.correlationId # c.correlationId THEN c1
      ELSE IF JSONparseThrows(msg.content) \/ Nullish(res) THEN c1
      ELSE LET c2 == IF Get(res, "status") = Str("success")
                     THEN Resolve(c1, res)
                     ELSE RejectCall(c1, Get(res, "errorMessage"))
           IN  [c2 EXCEPT !.effects = @ \o <<EvDelete(c.queue)>>]

\* Variant of OnReply: the status is not looked at.
OnReplyNoStatus(c, msg) ==
  LET c1 == [c EXCEPT !.received = Append(@, msg)]
      res == JSONparse(msg.content)
  IN  IF msg.correlationId # c.correlationId THEN c1
      ELSE IF JSONparseThrows(msg.content) \/ Nullish(res) THEN c1
      ELSE [Resolve(c1, Get(res, "data")) EXCEPT !.effects = @ \o <<EvDelete(c.queue)>>]

\* Variant of OnReply: the reply queue is deleted on the success branch only.
OnReplyDeleteOnSuccess(c, msg) ==
  LET c1 == [c EXCEPT !.received = Append(@, msg)]
      res == JSONparse(msg.content)
  IN  IF msg.correlationId # c.correlationId THEN c1
      ELSE IF JSONparseThrows(msg.content) \/ Nullish(res) THEN c1
      ELSE IF Get(res, "status") = Str("success")
      THEN [Resolve(c1, Get(res, "data")) EXCEPT !.effects = @ \o <<EvDelete(c.queue)>>]
      ELSE RejectCall(c1, Get(res, "errorMessage"))

\* Variant of OnReply: a message with another correlation id rejects the call.
OnReplyRejectsStranger(c, msg) ==
  LET c1 == [c EXCEPT !.received = Append(@, msg)]
      res == JSONparse(msg.content)
  IN  IF msg.correlationId # c.correlationId
      THEN RejectCall(c1, Err("unexpected correlationId"))
      ELSE IF JSONparseThrows(msg.content) \/ Nullish(res) THEN c1
      ELSE LET c2 == IF Get(res, "status") = Str("success")
                     THEN Resolve(c1, Get(res, "data"))
                     ELSE RejectCall(c1, Get(res, "errorMessage"))
           IN  [c2 EXCEPT !.effects = @ \o <<EvDelete(c.queue)>>]

\* The consumer callback of the reply queue, invoked with a message.
OnReply(c, msg) ==
  LET c1 == [c EXCEPT !.received = Append(@, msg)]
      res == JSONparse(msg.content)
  IN  IF msg.correlationId # c.correlationId THEN c1
      ELSE IF JSONparseThrows(msg.content) \/ Nullish(res) THEN c1
      ELSE LET c2 == IF Get(res, "status") = Str("success")
                     THEN Resolve(c1, Get(res, "data"))
                     ELSE RejectCall(c1, Get(res, "errorMessage"))
           IN  [c2 EXCEPT !.effects = @ \o <<EvDelete(c.queue)>>]

\* Variant of OnCancel: the reply queue is deleted on cancellation too.
OnCancelDeletes(c) ==
  [RejectCall([c EXCEPT !.received = Append(@, [kind |-> "cancel"]), !.consumer = FALSE],
              Err("consumer cancelled by rabbitmq"))
     EXCEPT !.effects = @ \o <<EvDelete(c.queue)>>]

\* The consumer callback of the reply queue, invoked with null.
OnCancel(c) ==
  RejectCall([c EXCEPT !.received = Append(@, [kind |-> "cancel"]), !.consumer = FALSE],
             Err("consumer cancelled by rabbitmq"))

Requests == {Obj([op |-> Str("ping")])}

ReplyBodies ==
  { Text(Obj([status |-> Str("success"), data |-> Str("pong")])),
    Text(Obj([status |-> Str("success"), data |-> Null])),
    Text(Obj([status |-> Str("error"), errorMessage |-> Str("boom")])),
    Malformed }

\* Number of anonymous queues the broker has named.
NGen == Cardinality({i \in 1..Len(calls) : calls[i].queue # ""})

SendRPCMessage(message) ==
  /\ process = "running"
  /\ NOps < MaxOps
  /\ calls' = Append(calls, StartCall(message, Uuid(Len(calls) + 1), channel))
  /\ UNCHANGED <<nodeEnv, connection, channel, initPc, initLog, declared, consumers, msgs, sends>>
  /\ process' \in EndOfTurn

RpcAssertOk(c) ==
  /\ process = "running"
  /\ c \in 1..Len(calls)
  /\ calls[c].step = "asserting"
  /\ channel = "open"
  /\ LET q == GenQueue(NGen + 1)
     IN  /\ declared' = declared \cup {q}
         /\ calls' = [calls EXCEPT ![c] = OnReplyQueue(@, q)]
  /\ UNCHANGED <<nodeEnv, connection, channel, initPc, initLog, consumers, msgs, sends>>
  /\ process' \in EndOfTurn

\* Variant of RpcAssertFail: the rejection of assertQueue rejects the call.
RpcAssertFailRejects(c) ==
  /\ process = "running"
  /\ c \in 1..Len(calls)
  /\ calls[c].step = "asserting"
  /\ channel' = "closed"
  /\ calls' = [calls EXCEPT ![c] = RejectCall([@ EXCEPT !.step = "assertFailed"],
                                              Err("Channel closed"))]
  /\ UNCHANGED <<nodeEnv, connection, initPc, initLog, declared, consumers, msgs, sends>>
  /\ process' \in EndOfTurn

\* assertQueue rejects: nothing handles the rejection, the call stays as it is.
RpcAssertFail(c) ==
  /\ process = "running"
  /\ c \in 1..Len(calls)
  /\ calls[c].step = "asserting"
  /\ channel' = "closed"
  /\ calls' = [calls EXCEPT ![c].step = "assertFailed"]
  /\ UNCHANGED <<nodeEnv, connection, initPc, initLog, declared, consumers, msgs, sends>>
  /\ process' \in EndOfTurn

\* A message arrives on the reply queue of call c.
ReplyDeliver(c, corr, content) ==
  /\ process = "running"
  /\ c \in 1..Len(calls)
  /\ calls[c].consumer
  /\ channel = "open"
  /\ NOps < MaxOps
  /\ calls' = [calls EXCEPT ![c] =
       OnReply(@, [kind |-> "message", correlationId |-> corr, content |-> content])]
  /\ UNCHANGED <<nodeEnv, connection, channel, initPc, initLog, declared, consumers, msgs, sends>>
  /\ process' \in EndOfTurn

\* The broker cancels the consumer of the reply queue of call c.
ReplyCancel(c) ==
  /\ process = "running"
  /\ c \in 1..Len(calls)
  /\ calls[c].consumer
  /\ channel = "open"
  /\ NOps < MaxOps
  /\ calls' = [calls EXCEPT ![c] = OnCancel(@)]
  /\ UNCHANGED <<nodeEnv, connection, channel, initPc, initLog, declared, consumers, msgs, sends>>
  /\ process' \in EndOfTurn

(***************************************************************************)
(* sendMessage.                                                            *)
(***************************************************************************)
\* A call of sendMessage(queueName, data).
\*   step:    "threw" (channel is undefined), "asserting" (awaiting
\*            assertQueue), "assertFailed", "sending" (sendToQueue called, its
\*            result awaited), "sent" (the function has returned)
\*   promise: state of the promise the function returns
NewSend(queueName, data) ==
  [queue |-> queueName, data |-> data, step |-> "asserting", promise |-> "pending",
   effects |-> <<>>]

\* `await channel.assertQueue(queueName)` is reached.
StartSend(queueName, data, ch) ==
  LET s == NewSend(queueName, data)
  IN  IF ch = "undefined" THEN [s EXCEPT !.step = "threw", !.promise = "rejected"]
      ELSE IF ch = "closed" THEN s
      ELSE [s EXCEPT !.effects = <<EvAssert(queueName, FALSE)>>]

\* channel.sendToQueue(queueName, Buffer.from(JSON.stringify(data || {})))
\* is called and its result awaited: the function is suspended once more.
AfterSendAssert(s) ==
  LET body == JSONstringify(IF Falsy(s.data) THEN Obj(<<>>) ELSE s.data)
  IN  [s EXCEPT !.step = "sending",
                !.effects = @ \o <<EvSend(s.queue, body, NoProp, NoProp)>>]

\* The await of sendToQueue's result resumes and the function returns.
AfterSend(s) == [s EXCEPT !.step = "sent", !.promise = "resolved"]

SendQueues == {"callPublish", "erxes-api:engages-notification"}
SendPayloads == {Obj([x |-> Num(1)])}

SendMessage(queueName, data) ==
  /\ process = "running"
  /\ NOps < MaxOps
  /\ sends' = Append(sends, StartSend(queueName, data, channel))
  /\ UNCHANGED <<nodeEnv, connection, channel, initPc, initLog, declared, consumers, msgs, calls>>
  /\ process' \in EndOfTurn

SendAssertOk(s) ==
  /\ process = "running"
  /\ s \in 1..Len(sends)
  /\ sends[s].step = "asserting"
  /\ channel = "open"
  /\ declared' = declared \cup {sends[s].queue}
  /\ sends' = [sends EXCEPT ![s] = AfterSendAssert(@)]
  /\ UNCHANGED <<nodeEnv, connection, channel, initPc, initLog, consumers, msgs, calls>>
  /\ process' \in EndOfTurn

SendReturn(s) ==
  /\ process = "running"
  /\ s \in 1..Len(sends)
  /\ sends[s].step = "sending"
  /\ sends' = [sends EXCEPT ![s] = AfterSend(@)]
  /\ UNCHANGED <<nodeEnv, connection, channel, initPc, initLog, declared, consumers, msgs, calls>>
  /\ process' \in EndOfTurn

SendAssertFail(s) ==
  /\ process = "running"
  /\ s \in 1..Len(sends)
  /\ sends[s].step = "asserting"
  /\ channel' = "closed"
  /\ sends' = [sends EXCEPT ![s].step = "assertFailed", ![s].promise = "rejected"]
  /\ UNCHANGED <<nodeEnv, connection, initPc, initLog, declared, consumers, msgs, calls>>
  /\ process' \in EndOfTurn

(***************************************************************************)
(* The specification.                                                      *)
(***************************************************************************)
Init ==
  /\ process = "running"
  /\ nodeEnv \in NodeEnvs
  /\ connection = FALSE
  /\ channel = "undefined"
  /\ initPc = 0
  /\ initLog = <<>>
  /\ declared = {}
  /\ consumers = [q \in WellKnownSet |-> 0]
  /\ msgs = <<>>
  /\ calls = <<>>
  /\ sends = <<>>

Next ==
  \/ ConnectOk
  \/ ConnectFail
  \/ CreateChannelOk
  \/ CreateChannelFail
  \/ \E i \in 1..Len(WellKnown) : AssertQueueOk(i)
  \/ \E i \in 1..Len(WellKnown) : AssertQueueFail(i)
  \/ \E q \in WellKnownSet : \E content \in Bodies(q) : Deliver(q, content)
  \/ \E tag \in 1..Len(msgs) : \E r \in Returns(msgs[tag]) : HandlerReturn(tag, r)
  \/ \E tag \in 1..Len(msgs) : HandlerThrow(tag)
  \/ \E message \in Requests : SendRPCMessage(message)
  \/ \E c \in 1..Len(calls) : RpcAssertOk(c)
  \/ \E c \in 1..Len(calls) : RpcAssertFail(c)
  \/ \E c \in 1..Len(calls) : \E k \in 0..Len(calls) : \E content \in ReplyBodies :
       ReplyDeliver(c, IF k = 0 THEN NoProp ELSE Uuid(k), content)
  \/ \E c \in 1..Len(calls) : ReplyCancel(c)
  \/ \E q \in SendQueues : \E data \in SendPayloads : SendMessage(q, data)
  \/ \E s \in 1..Len(sends) : SendAssertOk(s)
  \/ \E s \in 1..Len(sends) : SendReturn(s)
  \/ \E s \in 1..Len(sends) : SendAssertFail(s)

Spec == Init /\ [][Next]_vars

(***************************************************************************)
(* sendMessage on its own, over every kind of payload: the module has      *)
(* started successfully and only sendMessage is called.                    *)
(***************************************************************************)
AllPayloads == {Undefined, Null, False, Num(0), Str(""), Obj([x |-> Num(1)])}

SendInit ==
  /\ process = "running"
  /\ nodeEnv \in NodeEnvs
  /\ connection = TRUE
  /\ channel = "open"
  /\ initPc = InitReturned
  /\ initLog = <<>>
  /\ declared = WellKnownSet
  /\ consumers = [q \in WellKnownSet |-> 1]
  /\ msgs = <<>>
  /\ calls = <<>>
  /\ sends = <<>>

SendNext ==
  \/ \E q \in SendQueues : \E data \in AllPayloads :
       Len(sends) < MaxSends /\ SendMessage(q, data)
  \/ \E s \in 1..Len(sends) : SendAssertOk(s)
  \/ \E s \in 1..Len(sends) : SendReturn(s)
  \/ \E s \in 1..Len(sends) : SendAssertFail(s)

SendSpec == SendInit /\ [][SendNext]_vars

(***************************************************************************)
(* The consumer callbacks on their own, over every kind of body of         *)
(* 'widgetNotification' and both settings of NODE_ENV: the module has      *)
(* started successfully and only messages of the well-known queues arrive. *)
(***************************************************************************)
AllBodies(q) == IF q = "widgetNotification" THEN WidgetBodies ELSE Bodies(q)

ConsumerNext ==
  \/ \E q \in WellKnownSet : \E content \in AllBodies(q) : Deliver(q, content)
  \/ \E tag \in 1..Len(msgs) : \E r \in Returns(msgs[tag]) : HandlerReturn(tag, r)
  \/ \E tag \in 1..Len(msgs) : HandlerThrow(tag)
  \/ \E tag \in 1..Len(msgs) : \E i \in 1..Len(msgs[tag].effects) : BackgroundDone(tag, i)
  \/ \E tag \in 1..Len(msgs) : \E i \in 1..Len(msgs[tag].effects) : BackgroundFail(tag, i)

ConsumerSpec == SendInit /\ [][ConsumerNext]_vars

(***************************************************************************)
(* Properties.                                                             *)
(***************************************************************************)
Calls == 1..Len(calls)
Tags == 1..Len(msgs)

Acked(tag) == \E i \in Ops(msgs[tag].effects, "ack") : msgs[tag].effects[i].tag = tag

\* In this step the reply consumer of call c was invoked with a message.
GotMessage(c) ==
  /\ Len(calls'[c].received) = Len(calls[c].received) + 1
  /\ calls'[c].received[Len(calls'[c].received)].kind = "message"

TheMessage(c) == calls'[c].received[Len(calls'[c].received)]

Matches(c) == TheMessage(c).correlationId = calls[c].correlationId

SuccessReply(y) == Text(Obj([status |-> Str("success"), data |-> y]))
ErrorReply(m) == Text(Obj([status |-> Str("error"), errorMessage |-> Str(m)]))

\* C1: a message delivered on the reply queue of a call whose correlationId
\* differs from the id generated for the call is ignored: the promise, its
\* value and the calls issued on the channel (deleteQueue among them) stay as
\* they were; hence a message that settles the call carries the matching id.
C1_MismatchIgnored ==
  [][\A c \in Calls :
       (GotMessage(c) /\ ~Matches(c)) =>
         /\ calls'[c].promise = calls[c].promise
         /\ calls'[c].value = calls[c].value
         /\ calls'[c].effects = calls[c].effects]_vars

C1_Witness ==
  \E c \in Calls :
    /\ calls[c].received # <<>>
    /\ \A i \in 1..Len(calls[c].received) :
         /\ calls[c].received[i].kind = "message"
         /\ calls[c].received[i].correlationId # calls[c].correlationId
         /\ calls[c].received[i].content = SuccessReply(Str("pong"))
    /\ calls[c].promise = "pending"

\* C2: a reply on the reply queue of a pending call, with the call's
\* correlationId and body {status: "success", data: Y}, resolves the call
\* with exactly Y.
C2_SuccessResolvesWithData ==
  [][\A c \in Calls : \A y \in {Str("pong"), Null} :
       (/\ GotMessage(c) /\ Matches(c)
        /\ TheMessage(c).content = SuccessReply(y)
        /\ calls[c].promise = "pending") =>
         /\ calls'[c].promise = "resolved"
         /\ calls'[c].value = y]_vars

C2_Witness ==
  \E c \in Calls :
    /\ calls[c].message = Obj([op |-> Str("ping")])
    /\ Len(calls[c].received) = 1
    /\ calls[c].received[1] =
         [kind |-> "message", correlationId |-> calls[c].correlationId,
          content |-> SuccessReply(Str("pong"))]
    /\ calls[c].promise = "resolved"
    /\ calls[c].value = Str("pong")

\* C3: a matching reply with body {status: "error", errorMessage: M} rejects
\* a pending call with exactly M, and never resolves a call.
C3_ErrorRejectsWithMessage ==
  [][\A c \in Calls :
       (/\ GotMessage(c) /\ Matches(c)
        /\ TheMessage(c).content = ErrorReply("boom")) =>
         /\ calls[c].promise = "pending" =>
              calls'[c].promise = "rejected" /\ calls'[c].value = Str("boom")
         /\ calls'[c].promise = "resolved" => calls[c].promise = "resolved"]_vars

C3_Witness ==
  \E c \in Calls :
    /\ Len(calls[c].received) = 1
    /\ calls[c].received[1] =
         [kind |-> "message", correlationId |-> calls[c].correlationId,
          content |-> ErrorReply("boom")]
    /\ calls[c].promise = "rejected"
    /\ calls[c].value = Str("boom")

\* C4: a matching reply that decodes to a success or to an error envelope
\* has deleteQueue issued for the reply queue of its call, and every
\* deleteQueue the program issues names the reply queue of the call whose
\* consumer issued it.
C4_ReplyDeletesReplyQueue ==
  /\ [](/\ \A c \in Calls : \A i \in Ops(calls[c].effects, "deleteQueue") :
             /\ calls[c].queue # ""
             /\ calls[c].effects[i].queue = calls[c].queue
             /\ \A d \in Calls : d # c => calls[d].queue # calls[c].queue
        /\ \A t \in Tags : Ops(msgs[t].effects, "deleteQueue") = {}
        /\ \A s \in 1..Len(sends) : Ops(sends[s].effects, "deleteQueue") = {})
  /\ [][\A c \in Calls :
          (/\ GotMessage(c) /\ Matches(c)
           /\ TheMessage(c).content \in
                {SuccessReply(Str("pong")), SuccessReply(Null), ErrorReply("boom")}) =>
            calls'[c].effects = Append(calls[c].effects, EvDelete(calls[c].queue))]_vars

C4_Witness ==
  \E c \in Calls :
    /\ calls[c].promise = "rejected"
    /\ calls[c].value = Str("boom")
    /\ calls[c].effects[Len(calls[c].effects)] = EvDelete(calls[c].queue)
    /\ calls[c].queue \in declared

\* C5: a message delivered on a well-known queue whose handler throws or
\* whose promise rejects is still acknowledged.
C5_FailedStillAcked == \A tag \in Tags : msgs[tag].handler = "threw" => Acked(tag)

\* C6: a failed handler does not block progress: once the handler of a
\* message has failed the process goes on serving; while the channel is
\* open each well-known queue with a consumer still gets its next message
\* delivered to its callback, and every handler that is running can still
\* complete.
C6_FailureDoesNotBlock ==
  (\E t \in Tags : msgs[t].handler = "threw") =>
    /\ process = "running"
    /\ channel = "open" =>
         \A q \in WellKnownSet :
           (consumers[q] > 0 /\ NOps < MaxOps /\ Len(msgs) < MaxMsgs) =>
             \A content \in Bodies(q) : ENABLED Deliver(q, content)
    /\ \A t \in Tags : (msgs[t].handler = "running" /\ msgs[t].at \notin {"threw", "rejected"}) =>
         \A r \in Returns(msgs[t]) : ENABLED HandlerReturn(t, r)

\* The reply of the server side: one sendToQueue to the message's replyTo
\* with the message's correlationId and the serialized result, then the ack.
RepliedThenAcked(tag, r) ==
  LET e == msgs[tag].effects
  IN  /\ Cardinality(Ops(e, "sendToQueue")) = 1
      /\ Cardinality(Ops(e, "ack")) = 1
      /\ \E i \in Ops(e, "sendToQueue") : \E j \in Ops(e, "ack") :
           /\ i < j
           /\ e[i] = EvSend(msgs[tag].replyTo, JSONstringify(r), msgs[tag].correlationId, NoProp)
           /\ e[i].content.wf
           /\ e[j].tag = tag

\* C7: every message consumed from the rpc-inbound queue whose handler has
\* returned R (the channel being open) has exactly one reply with the
\* serialized R published to its replyTo with its correlationId, and is
\* acknowledged after the reply.
C7_RpcReplyThenAck ==
  \A tag \in Tags :
    (/\ msgs[tag].queue = RpcInbound
     /\ msgs[tag].handler = "returned"
     /\ msgs[tag].error # "IllegalOperationError") =>
      RepliedThenAcked(tag, msgs[tag].result)

\* The part of C7 that holds: a handler result other than undefined.
C7_DefinedResultReplied ==
  \A tag \in Tags :
    (/\ msgs[tag].queue = RpcInbound
     /\ msgs[tag].handler = "returned"
     /\ msgs[tag].result # Undefined
     /\ msgs[tag].error # "IllegalOperationError") =>
      RepliedThenAcked(tag, msgs[tag].result)

\* C8: a message {name: N, data: D} delivered on 'callPublish' makes exactly
\* one call publish(N, D) on the event broadcaster, followed by the ack.
C8_PublishRelay ==
  \A tag \in Tags :
    (/\ msgs[tag].queue = "callPublish"
     /\ msgs[tag].content = Text(Obj([name |-> Str("fooEvent"), data |-> Obj([x |-> Num(1)])]))) =>
      msgs[tag].effects = <<EvPublish(Str("fooEvent"), Obj([x |-> Num(1)])), EvAck(tag)>>

C8_Witness ==
  \E tag \in Tags :
    /\ msgs[tag].queue = "callPublish"
    /\ msgs[tag].content.wf
    /\ msgs[tag].cb = "fulfilled"
    /\ Acked(tag)

\* C9: after a successful startup each well-known queue is declared and has
\* exactly one consumer, whatever has been called since; a sendMessage on a
\* well-known queue fails only when the channel has been closed.
C9_OneConsumerPerQueue ==
  Started =>
    /\ \A q \in WellKnownSet : consumers[q] = 1 /\ q \in declared
    /\ DOMAIN consumers = WellKnownSet
    /\ channel = "open" => \A s \in 1..Len(sends) : sends[s].step # "assertFailed"

C9_Witness ==
  /\ Started
  /\ \E s \in 1..Len(sends) :
       /\ sends[s].queue = "callPublish"
       /\ sends[s].effects # <<>>
       /\ sends[s].step = "sent"
       /\ sends[s].promise = "resolved"
  /\ \E tag \in Tags : msgs[tag].queue = "callPublish" /\ Acked(tag)

ConnectFailed == initLog = <<"connect ECONNREFUSED">>

\* C10: when amqplib.connect fails, initConsumer logs the failure and
\* returns; the connection and the channel are never set, no queue is
\* declared, no consumer registered, no message delivered, and every
\* sendMessage and sendRPCMessage call is rejected without anything having
\* been issued on the channel.
C10_ConnectFailureIsFinal ==
  ConnectFailed =>
    /\ initPc = InitReturned
    /\ ~connection
    /\ channel = "undefined"
    /\ declared = {}
    /\ \A q \in WellKnownSet : consumers[q] = 0
    /\ msgs = <<>>
    /\ \A c \in Calls :
         /\ calls[c].promise = "rejected"
         /\ calls[c].value = Err("TypeError")
         /\ calls[c].effects = <<>>
    /\ \A s \in 1..Len(sends) :
         /\ sends[s].promise = "rejected"
         /\ sends[s].effects = <<>>

C10_Witness ==
  /\ ConnectFailed
  /\ \E c \in Calls : calls[c].promise = "rejected"
  /\ \E s \in 1..Len(sends) : sends[s].promise = "rejected"

\* The message sendMessage call s has put on its queue decodes to p.
PutsOne(s, p) ==
  LET e == sends[s].effects
  IN  /\ Cardinality(Ops(e, "sendToQueue")) = 1
      /\ \A i \in Ops(e, "sendToQueue") :
           /\ e[i].queue = sends[s].queue
           /\ ~JSONparseThrows(e[i].content)
           /\ JSONparse(e[i].content) = p

\* C11: sendMessage(Q, P) with a payload P (null, false, 0 and '' included)
\* puts exactly one message on Q whose body decodes to P.
C11_SendRoundTrip ==
  \A s \in 1..Len(sends) :
    (sends[s].step = "sent" /\ sends[s].data # Undefined) => PutsOne(s, sends[s].data)

\* The part of C11 that holds: a truthy payload is sent as it is, a falsy
\* one as the empty object.
C11_FalsySentAsEmptyObject ==
  \A s \in 1..Len(sends) :
    sends[s].step = "sent" =>
      PutsOne(s, IF Falsy(sends[s].data) THEN Obj(<<>>) ELSE sends[s].data)

\* The request of call c has been published.
Sent(c) == Ops(calls[c].effects, "sendToQueue") # {}

\* Every request call c has published went to the rpc queue with the id and
\* the reply queue of the call, after the reply queue had been declared and
\* its consumer subscribed.
PublishedInOrder(c) ==
  LET e == calls[c].effects
  IN  /\ Cardinality(Ops(e, "sendToQueue")) <= 1
      /\ \A i \in Ops(e, "sendToQueue") :
           /\ calls[c].queue # ""
           /\ e[i] = EvSend(RpcOutbound, JSONstringify(calls[c].message),
                            calls[c].correlationId, calls[c].queue)
           /\ \E a \in Ops(e, "assertQueue") : \E k \in Ops(e, "consume") :
                a < k /\ k < i /\ e[k] = EvConsume(calls[c].queue, TRUE)

\* C12: every call publishes its request after the declaration of the reply
\* queue and the subscription of its consumer, with its own correlationId
\* and replyTo, and no call is resolved or rejected before its request has
\* been published.
C12_SettledOnlyAfterSent ==
  \A c \in Calls :
    /\ PublishedInOrder(c)
    /\ calls[c].promise # "pending" => Sent(c)

\* C12 as amended: the order of declaration, subscription and publication
\* holds; no call is resolved before its request has been published; a call
\* rejected before that is one whose executor threw (the channel undefined),
\* which has declared and published nothing.
C12_OrderOrSynchronousFailure ==
  \A c \in Calls :
    /\ PublishedInOrder(c)
    /\ calls[c].step = "sent" <=> Sent(c)
    /\ calls[c].promise = "resolved" => Sent(c)
    /\ (calls[c].promise = "rejected" /\ ~Sent(c)) =>
         /\ calls[c].step = "threw"
         /\ calls[c].effects = <<>>
         /\ calls[c].queue = ""
         /\ calls[c].value = Err("TypeError")

C12_Witness ==
  \E c \in Calls :
    /\ calls[c].promise = "resolved"
    /\ calls[c].effects =
         << EvAssert("", TRUE), EvConsume(calls[c].queue, TRUE),
            EvSend(RpcOutbound, Text(Obj([op |-> Str("ping")])),
                   calls[c].correlationId, calls[c].queue),
            EvDelete(calls[c].queue) >>

Cancelled == Err("consumer cancelled by rabbitmq")

\* The deliveries to call c that were messages with its correlationId and a
\* body that decodes to an object.
MatchingReplies(c) ==
  {i \in 1..Len(calls[c].received) :
     /\ calls[c].received[i].kind = "message"
     /\ calls[c].received[i].correlationId = calls[c].correlationId
     /\ ~JSONparseThrows(calls[c].received[i].content)
     /\ ~Nullish(JSONparse(calls[c].received[i].content))}

Deletes(c) ==
  {i \in Ops(calls[c].effects, "deleteQueue") : calls[c].effects[i].queue = calls[c].queue}

\* C13: every call that has a reply queue and has ended resolved or rejected,
\* by whatever path, has deleteQueue issued for its reply queue.
C13_SettledDeletes ==
  \A c \in Calls :
    (calls[c].promise # "pending" /\ calls[c].queue # "") => Deletes(c) # {}

\* C13 as amended: deleteQueue is issued once for each matching reply and
\* by nothing else; a call resolved, or rejected by a reply, has it issued;
\* a call rejected by the consumer's cancellation alone has not.
C13_DeletionOnlyOnMatchingReply ==
  \A c \in Calls :
    /\ Cardinality(Deletes(c)) = Cardinality(MatchingReplies(c))
    /\ calls[c].promise = "resolved" => Deletes(c) # {}
    /\ (calls[c].promise = "rejected" /\ calls[c].step # "threw"
          /\ calls[c].value # Cancelled) => Deletes(c) # {}
    /\ (calls[c].promise = "rejected" /\ calls[c].value = Cancelled
          /\ MatchingReplies(c) = {}) => Deletes(c) = {}

C13_Witness ==
  \E c \in Calls :
    /\ calls[c].step = "sent"
    /\ calls[c].received = <<[kind |-> "cancel"]>>
    /\ calls[c].promise = "rejected"
    /\ calls[c].value = Cancelled
    /\ Ops(calls[c].effects, "deleteQueue") = {}

\* The deliveries to call c that settle a pending call: a matching reply or
\* the cancellation of the consumer.
Settling(c) ==
  MatchingReplies(c) \cup
    {i \in 1..Len(calls[c].received) : calls[c].received[i].kind = "cancel"}

First(S) == CHOOSE i \in S : \A j \in S : i <= j

\* What one settling delivery makes of a pending call.
Outcome(x) ==
  IF x.kind = "cancel" THEN <<"rejected", Cancelled>>
  ELSE IF Get(JSONparse(x.content), "status") = Str("success")
  THEN <<"resolved", Get(JSONparse(x.content), "data")>>
  ELSE <<"rejected", Get(JSONparse(x.content), "errorMessage")>>

\* C14: a settled call keeps its outcome in every step, whatever is delivered
\* on its reply queue afterwards, and the outcome of a call is the one of the
\* first settling delivery it received.
C14_SettledIsTerminal ==
  /\ [](\A c \in Calls :
          calls[c].step = "sent" =>
            IF Settling(c) = {} THEN calls[c].promise = "pending"
            ELSE <<calls[c].promise, calls[c].value>>
                   = Outcome(calls[c].received[First(Settling(c))]))
  /\ [][\A c \in Calls :
          calls[c].promise # "pending" =>
            /\ calls'[c].promise = calls[c].promise
            /\ calls'[c].value = calls[c].value]_vars

\* A settled call has received a second settling delivery with another outcome.
C14_Witness ==
  \E c \in Calls :
    /\ Cardinality(Settling(c)) >= 2
    /\ \E i \in Settling(c) :
         /\ i # First(Settling(c))
         /\ Outcome(calls[c].received[i]) # Outcome(calls[c].received[First(Settling(c))])
    /\ <<calls[c].promise, calls[c].value>>
         = Outcome(calls[c].received[First(Settling(c))])

\* No message carrying the correlation id of call c has been delivered on
\* its reply queue.
NoReply(c) ==
  \A i \in 1..Len(calls[c].received) :
    calls[c].received[i].kind = "message" =>
      calls[c].received[i].correlationId # calls[c].correlationId

CancelReceived(c) ==
  \E i \in 1..Len(calls[c].received) : calls[c].received[i].kind = "cancel"

\* C15: a call whose request has been published and that has received no
\* matching reply is pending and its reply queue has not been deleted.
C15_NoReplyStaysPending ==
  \A c \in Calls :
    (Sent(c) /\ NoReply(c)) => (calls[c].promise = "pending" /\ Deletes(c) = {})

\* C15 as amended: without a matching reply the reply queue is never deleted,
\* the call is pending unless its consumer has been cancelled (then it is
\* rejected with the cancellation error), and no step settles a call except
\* a delivery to its reply consumer: nothing times out.
C15_NoReplyPendingUnlessCancelled ==
  /\ [](\A c \in Calls :
          (Sent(c) /\ NoReply(c)) =>
            /\ Deletes(c) = {}
            /\ ~CancelReceived(c) => calls[c].promise = "pending"
            /\ CancelReceived(c) =>
                 (calls[c].promise = "rejected" /\ calls[c].value = Cancelled))
  /\ [][\A c \in Calls :
          (calls[c].promise = "pending" /\ calls'[c].promise # "pending") =>
            Len(calls'[c].received) = Len(calls[c].received) + 1]_vars

\* A published request whose reply queue got only messages of other calls:
\* still pending after the last operation of the run.
C15_Witness ==
  \E c \in Calls :
    /\ Sent(c)
    /\ Len(calls[c].received) = 2
    /\ NoReply(c)
    /\ ~CancelReceived(c)
    /\ calls[c].promise = "pending"
    /\ Deletes(c) = {}

\* Work started for the message that has not ended: the work its callback
\* awaits or has started, or a call receiveWidgetNotification made without
\* awaiting it.
InProgress(tag) == msgs[tag].handler = "running" \/ InBackground(msgs[tag]) # {}

\* C16: on every well-known queue a message that has been acknowledged has
\* had the work of its handler completed or failed: no work started for it
\* is still in progress.
C16_AckOnlyAfterWork == \A tag \in Tags : Acked(tag) => ~InProgress(tag)

\* C16 as amended: on the five queues other than 'sparkNotification' an
\* acknowledged message has had the work its callback awaits returned, and
\* the ack is the last thing done for it; on 'sparkNotification' the message
\* is acknowledged as soon as createEntry has been started, whatever becomes
\* of it.  Work still in progress at an acknowledged message is therefore
\* createEntry on 'sparkNotification' or, on 'widgetNotification', calls
\* receiveWidgetNotification made without awaiting them.
C16_AckAfterAwaitedWork ==
  \A tag \in Tags :
    /\ (msgs[tag].queue # "sparkNotification" /\ Acked(tag)) =>
         /\ msgs[tag].handler = "returned"
         /\ msgs[tag].queue = "widgetNotification" => msgs[tag].at = "returned"
         /\ msgs[tag].effects[Len(msgs[tag].effects)] = EvAck(tag)
    /\ (msgs[tag].queue = "sparkNotification" /\ msgs[tag].handler # "none") =>
         Acked(tag)
    /\ (Acked(tag) /\ InProgress(tag)) =>
         \/ msgs[tag].queue = "sparkNotification" /\ InBackground(msgs[tag]) = {}
         \/ msgs[tag].queue = "widgetNotification" /\ msgs[tag].handler = "returned"

\* A 'sparkNotification' message acknowledged while createEntry is running,
\* next to a 'widgetNotification' message acknowledged after
\* receiveWidgetNotification has returned while a call it made without await
\* is in progress.
C16_Witness ==
  /\ \E tag \in Tags :
       /\ msgs[tag].queue = "sparkNotification"
       /\ msgs[tag].handler = "running"
       /\ Acked(tag)
  /\ \E tag \in Tags :
       /\ msgs[tag].queue = "widgetNotification"
       /\ msgs[tag].handler = "returned"
       /\ Acked(tag)
       /\ InBackground(msgs[tag]) # {}

\* The reply queue has been declared for call c and the call is not settled.
InFlight(c) == calls[c].queue # "" /\ calls[c].promise = "pending"

\* C17: any two calls have distinct correlation ids and distinct reply
\* queues, and a message delivered on the reply queue of one call leaves the
\* other call as it was: it does not resolve it, reject it or delete its
\* reply queue; if the message carries the other call's id, the call that
\* received it ignores it.
C17_CallsDoNotInterfere ==
  /\ [](\A c, d \in Calls :
          c # d =>
            /\ calls[c].correlationId # calls[d].correlationId
            /\ calls[c].queue # "" => calls[c].queue # calls[d].queue)
  /\ [][\A c, d \in Calls :
          (c # d /\ GotMessage(c)) =>
            /\ calls'[d] = calls[d]
            /\ TheMessage(c).correlationId = calls[d].correlationId =>
                 /\ calls'[c].promise = calls[c].promise
                 /\ calls'[c].effects = calls[c].effects]_vars

\* Two calls in flight together; the reply consumer of one has been handed a
\* well-formed reply carrying the other's correlation id.
C17_Witness ==
  \E c, d \in Calls :
    /\ c # d
    /\ InFlight(c) /\ InFlight(d)
    /\ Sent(c) /\ Sent(d)
    /\ Len(calls[c].received) = 1
    /\ calls[c].received[1].kind = "message"
    /\ calls[c].received[1].correlationId = calls[d].correlationId
    /\ ~JSONparseThrows(calls[c].received[1].content)
    /\ calls[d].received = <<>>

\* C18: a message with a malformed JSON body delivered on a well-known queue
\* is acknowledged, its handler is not run, and the consumer callback does
\* not fail.
C18_MalformedDropped ==
  \A tag \in Tags :
    JSONparseThrows(msgs[tag].content) =>
      /\ msgs[tag].handler = "none"
      /\ Acked(tag)
      /\ msgs[tag].cb # "rejected"

\* What the callbacks do with such a message: the handler is not run, the
\* message is never acknowledged and the callback's promise is rejected with
\* the SyntaxError of JSON.parse.
C18_MalformedEscapes ==
  \A tag \in Tags :
    JSONparseThrows(msgs[tag].content) =>
      /\ msgs[tag].handler = "none"
      /\ ~Acked(tag)
      /\ msgs[tag].cb = "rejected"
      /\ msgs[tag].error = "SyntaxError"

\* receiveRpcMessage has failed for the rpc-inbound message tag.
RpcHandlerFailed(tag) ==
  msgs[tag].queue = RpcInbound /\ msgs[tag].handler = "threw"

\* Some consumer callback has published a message with the correlation id
\* of the request tag.
RepliedTo(tag) ==
  \E t \in Tags : \E i \in Ops(msgs[t].effects, "sendToQueue") :
    msgs[t].effects[i].correlationId = msgs[tag].correlationId

\* A call in the position of the requester of a request that is not
\* answered: its request has been published and no message carrying its
\* correlationId has reached its reply queue.  (The calls of this module go
\* to 'rpc_queue:erxes-api'; the requesters of the queue its rpc callback
\* consumes run in another service.)
Unanswered(c) == Sent(c) /\ NoReply(c)

\* C19: when receiveRpcMessage has failed for a request, no reply to it has
\* been published, the request is not acknowledged, and a call whose reply
\* does not come is pending, whatever happens afterwards.
C19_FailedRpcPendingForever ==
  (\E tag \in Tags : RpcHandlerFailed(tag)) =>
    /\ \A tag \in Tags : RpcHandlerFailed(tag) => (~RepliedTo(tag) /\ ~Acked(tag))
    /\ \A c \in Calls : Unanswered(c) => calls[c].promise = "pending"

\* C19 as amended: once receiveRpcMessage has failed for a request, its
\* callback has published nothing, no reply to it has been published, the
\* request is not acknowledged, its callback has ended rejected, and no
\* later step changes any of this; a call whose reply does not come is
\* never resolved, and it is pending unless the broker has cancelled its
\* reply consumer, which rejects it with the cancellation error.
C19_FailedRpcNeverAnswered ==
  /\ [](\A tag \in Tags :
          RpcHandlerFailed(tag) =>
            /\ Ops(msgs[tag].effects, "sendToQueue") = {}
            /\ ~RepliedTo(tag)
            /\ ~Acked(tag)
            /\ msgs[tag].cb = "rejected")
  /\ [](\A c \in Calls :
          Unanswered(c) =>
            /\ calls[c].promise # "resolved"
            /\ calls[c].promise = "rejected" =>
                 (CancelReceived(c) /\ calls[c].value = Cancelled))
  /\ [][\A tag \in Tags : RpcHandlerFailed(tag) => msgs'[tag] = msgs[tag]]_vars

\* A request whose handler failed, next to a call that has published its
\* request and still waits on its reply queue.
C19_Witness ==
  /\ \E tag \in Tags : RpcHandlerFailed(tag) /\ msgs[tag].cb = "rejected"
  /\ \E c \in Calls :
       /\ Unanswered(c)
       /\ calls[c].consumer
       /\ calls[c].promise = "pending"

\* C20: a call whose assertQueue('', {exclusive: true}) has rejected, on an
\* open channel or at once on a closed one, is pending, has no reply queue
\* and no consumer, has published nothing, and stays so in every later step;
\* a call whose executor threw (channel undefined) is rejected and has issued
\* nothing.
C20_AssertFailureLeavesPending ==
  /\ [](\A c \in Calls :
          /\ calls[c].step = "assertFailed" =>
               /\ calls[c].promise = "pending"
               /\ ~calls[c].consumer
               /\ calls[c].queue = ""
               /\ calls[c].received = <<>>
               /\ calls[c].effects \in {<<>>, <<EvAssert("", TRUE)>>}
          /\ calls[c].step = "threw" =>
               /\ calls[c].promise = "rejected"
               /\ calls[c].value = Err("TypeError")
               /\ calls[c].effects = <<>>)
  /\ [][\A c \in Calls :
          calls[c].step = "assertFailed" => calls'[c] = calls[c]]_vars

\* A call rejected because the channel was undefined, a later call left
\* pending by the failed declaration of its reply queue, and a third made on
\* the channel that failure closed, pending as well.
C20_Witness ==
  \E b, c, d \in Calls :
    /\ b < c /\ c < d
    /\ calls[b].step = "threw"
    /\ calls[b].promise = "rejected"
    /\ calls[c].step = "assertFailed"
    /\ calls[c].effects = <<EvAssert("", TRUE)>>
    /\ calls[c].promise = "pending"
    /\ calls[d].step = "assertFailed"
    /\ calls[d].effects = <<>>
    /\ calls[d].promise = "pending"

\* receiveWidgetNotification under ConsumerSpec: a 'widgetNotification'
\* message is acknowledged only when the function has run to its end, the
\* ack is the last call made for the message, and with NODE_ENV = 'test' it
\* is the only one.
Widget_AckIsLast ==
  \A tag \in Tags :
    (msgs[tag].queue = "widgetNotification" /\ Acked(tag)) =>
      /\ msgs[tag].at = "returned"
      /\ msgs[tag].effects[Len(msgs[tag].effects)] = EvAck(tag)
      /\ nodeEnv = "test" => msgs[tag].effects = <<EvAck(tag)>>

====
